---- MODULE Spec2Model ----
(***************************************************************************)
(* The QRC experimentation pipeline of src/main.py (function main) and the *)
(* QRCModel wrapper of src/models.py, as a state machine.                  *)
(*                                                                         *)
(* main is straight-line code: `pc` is its position.  The collaborators   *)
(* main imports (feature_reduction, qrc_layer, training, visualization)   *)
(* are not part of the two source files; they are modelled from their     *)
(* call sites and from the specification, and are marked as such in the   *)
(* model map.                                                              *)
(***************************************************************************)
EXTENDS Integers, Sequences, FiniteSets, TLC

VARIABLES
    scenario,        \* "main": a run of main(args); "fit": a use of QRCModel
    pc,              \* position in main / in QRCModel
    args,            \* the argparse.Namespace handed to main
    env,             \* what main reads from outside: data sets, directory
    rng,             \* the global generators: [py, np, torch]
    nextId,          \* object identities handed out so far
    locals,          \* main's local variables (0 / empty = unbound)
    layers,          \* every DetuningLayer constructed, in order
    guidedLayer,     \* the layer handed to apply_guided_autoencoder (0 = none)
    scaleCalls,      \* log of scale_to_detuning_range calls
    applyCalls,      \* log of apply_layer calls
    trainCalls,      \* log of train calls
    results,         \* main's results dictionary
    out,             \* [printed, plotted, returned, error]
    model,           \* the QRCModel object and fit's frame
    nn               \* a NeuralNetwork under construction

vars == <<scenario, pc, args, env, rng, nextId, locals, layers, guidedLayer,
          scaleCalls, applyCalls, trainCalls, results, out, model, nn>>

----------------------------------------------------------------------------
(* Bounds *)

MaxDim == 2
MaxExamples == 2
MaxShots == 2
MaxHidden == 2

Dims == 1..MaxDim
Examples == 1..MaxExamples
Shots == 1..MaxShots
Seeds == {0, 1}
DataSets == {1, 2}
DetuningMaxs == {1, 3}
RawMax == MaxDim + 1
RNGMod == 2 * MaxShots + 3
AmbientStates == {RNGMod - 1, RNGMod - 2}

----------------------------------------------------------------------------
(* Strings: str.lower and str.upper on the method names used here *)

MethodInputs == {"PCA", "autoencoder", "Guided_Autoencoder", "tsne"}

Lower(s) ==
    CASE s = "PCA" -> "pca"
      [] s = "Guided_Autoencoder" -> "guided_autoencoder"
      [] s = "ReLU" -> "relu"
      [] s = "Leaky_ReLU" -> "leaky_relu"
      [] s = "TANH" -> "tanh"
      [] s = "Sigmoid" -> "sigmoid"
      [] s = "GELU" -> "gelu"
      [] OTHER -> s

Upper(s) ==
    CASE s = "pca" -> "PCA"
      [] s = "autoencoder" -> "AUTOENCODER"
      [] s = "guided_autoencoder" -> "GUIDED_AUTOENCODER"
      [] s = "Guided_Autoencoder" -> "GUIDED_AUTOENCODER"
      [] s = "tsne" -> "TSNE"
      [] OTHER -> s

----------------------------------------------------------------------------
(* Matrices: [id, vals]; vals is a sequence of rows, a row a sequence of   *)
(* integers.  id is the object's identity; 0 is "no object".              *)

NoMatrix == [id |-> 0, vals |-> <<>>]

Rows(m) == Len(m.vals)
Cols(m) == IF Len(m.vals) = 0 THEN 0 ELSE Len(m.vals[1])

Abs(v) == IF v < 0 THEN -v ELSE v

MaxOf(S) == CHOOSE v \in S : \A w \in S : w <= v

Entries(vals) == {vals[r][c] : r \in 1..Len(vals), c \in 1..(IF Len(vals) = 0 THEN 0 ELSE Len(vals[1]))}

----------------------------------------------------------------------------
(* Collaborators of main that live in feature_reduction                    *)

\* One entry of a reduced-feature matrix: a non-zero integer in
\* -RawMax..RawMax that depends on the data and on the position.
RawValue(d, r, c) ==
    LET mag == ((d * r + c) % RawMax) + 1
    IN  IF (d + r + c) % 2 = 0 THEN mag ELSE -mag

\* apply_pca / apply_autoencoder / apply_guided_autoencoder and their
\* *_to_test_data counterparts: num rows of width dim.
ReduceVals(d, num, dim) ==
    [r \in 1..num |-> [c \in 1..dim |-> RawValue(d, r, c)]]

\* The spectral value returned with the training reduction.
Spectral(vals) == MaxOf({Abs(v) : v \in Entries(vals)})

\* scale_to_detuning_range(xs, spectral, detuning_max): linear in xs, with
\* the result inside [-detuning_max, +detuning_max].
ScaleValue(v, spectral, dmax) ==
    LET mag == (Abs(v) * dmax) \div spectral
        cut == IF mag > dmax THEN dmax ELSE mag
    IN  IF v < 0 THEN -cut ELSE cut

ScaleToDetuningRange(vals, spectral, dmax) ==
    [r \in 1..Len(vals) |->
        [c \in 1..Len(vals[r]) |-> ScaleValue(vals[r][c], spectral, dmax)]]

----------------------------------------------------------------------------
(* The quantum layer (qrc_layer.DetuningLayer)                             *)

ReadoutTypes == {"probability", "correlation"}

\* Number of atom pairs i < j.
NPairs(n) == (n * (n - 1)) \div 2

\* Embedding width for n atoms and a readout type.
EmbeddingDim(n, readout) ==
    IF readout = "correlation" THEN n + NPairs(n) ELSE n

\* The p-th pair i < j of 1..n in lexicographic order.
PairRank(n, pr) ==
    Cardinality({q \in (1..n) \X (1..n) :
        /\ q[1] < q[2]
        /\ (q[1] < pr[1] \/ (q[1] = pr[1] /\ q[2] <= pr[2]))})

PairAt(n, p) ==
    CHOOSE pr \in (1..n) \X (1..n) : pr[1] < pr[2] /\ PairRank(n, pr) = p

\* The generator state after n further draws.
AdvanceBy(s, n) == (s + n) % RNGMod

\* Outcome of measuring atom i in a shot drawn in generator state s, the
\* atom's detuning being v * encoding_scale.
Excited(v, scale, s, i) == ((s * i + v * scale) % 3) = 0

\* Readout of one sample: per-atom excitation counts over the shots, then
\* (correlation readout) for each pair n_shots * joint - count_i * count_j.
RowEmbedding(cfg, row, n_shots, s) ==
    LET n == cfg.n_atoms
        hit(i, k) == Excited(row[i], cfg.encoding_scale, AdvanceBy(s, k), i)
        cnt(i) == Cardinality({k \in 1..n_shots : hit(i, k)})
        joint(i, j) == Cardinality({k \in 1..n_shots : hit(i, k) /\ hit(j, k)})
    IN  [e \in 1..EmbeddingDim(n, cfg.readout_type) |->
            IF e <= n THEN cnt(e)
            ELSE LET pr == PairAt(n, e - n)
                 IN  n_shots * joint(pr[1], pr[2]) - cnt(pr[1]) * cnt(pr[2])]

\* A configuration error: some row's width is not the atom count.
WidthMismatch(cfg, vals) == \E r \in 1..Len(vals) : Len(vals[r]) # cfg.n_atoms

\* apply_layer on a well-formed matrix: row r is sampled with the shots
\* drawn after those of rows 1..r-1; the generator ends n_shots * M draws on.
ApplyLayerEmb(cfg, vals, n_shots, s) ==
    [r \in 1..Len(vals) |->
        RowEmbedding(cfg, vals[r], n_shots, AdvanceBy(s, (r - 1) * n_shots))]

ApplyLayerRng(vals, n_shots, s) == AdvanceBy(s, Len(vals) * n_shots)

----------------------------------------------------------------------------
(* training.train: the trained model is a linear classifier unless         *)
(* nonlinear is set, sized by the width of x_train.                        *)

NoResult == [x_train |-> 0, x_test |-> 0, in_dim |-> 0, model |-> "", ok |-> FALSE]

TrainResult(call) ==
    [x_train |-> call.x_train.id,
     x_test  |-> call.x_test.id,
     in_dim  |-> Cols(call.x_train),
     model   |-> IF call.kwargs.nonlinear THEN "NeuralNetwork" ELSE "LinearClassifier",
     ok      |-> TRUE]

----------------------------------------------------------------------------
(* State after construction                                                *)

ArgsSet ==
    [seed              : Seeds,
     reduction_method  : MethodInputs,
     dim_reduction     : Dims,
     num_examples      : Examples,
     num_test_examples : Examples,
     n_shots           : Shots,
     detuning_max      : DetuningMaxs,
     readout_type      : ReadoutTypes,
     dataset_type      : {"mnist", "polyp"},
     no_plot           : BOOLEAN,
     no_progress       : {FALSE},
     geometry          : {"chain"},
     lattice_spacing   : {10},
     rabi_freq         : {6},
     evolution_time    : {4},
     time_steps        : {8},
     encoding_scale    : {1},
     regularization    : {0},
     nepochs           : {100},
     batchsize         : {100},
     learning_rate     : {1}]

EnvSet ==
    [data_train : DataSets, data_test : DataSets, dir_exists : BOOLEAN]

NoModel == [kind |-> "", shift |-> 0, dim |-> 0]

NoLocals ==
    [dim_reduction     |-> 0,
     method_name       |-> "",
     reduction_name    |-> "",
     xs_raw            |-> NoMatrix,
     test_features_raw |-> NoMatrix,
     spectral          |-> 0,
     reduction_model   |-> NoModel,
     train_targets     |-> 0,
     test_targets      |-> 0,
     ys                |-> 0,
     xs                |-> NoMatrix,
     test_features     |-> NoMatrix,
     quantum_layer     |-> 0,
     embeddings        |-> NoMatrix,
     test_embeddings   |-> NoMatrix]

NoOut == [printed |-> FALSE, plotted |-> FALSE, returned |-> FALSE, error |-> ""]

EmptyDict == [k \in {} |-> NoResult]

NoQRC ==
    [quantum_layer |-> 0, classifier |-> "", x_train |-> NoMatrix,
     x_test |-> NoMatrix, y_train |-> 0, y_test |-> 0, nonlinear |-> FALSE,
     train_embeddings |-> NoMatrix, test_embeddings |-> NoMatrix,
     returned |-> NoResult]

NoArgs == CHOOSE a \in ArgsSet : TRUE

NoEnv == CHOOSE e \in EnvSet : TRUE

NoNN ==
    [input_dim |-> 0, output_dim |-> 0, hidden_dims |-> <<>>,
     activation |-> [is_str |-> TRUE, value |-> ""], dropout |-> 0,
     batch_norm |-> FALSE, act_fn |-> "", layers |-> <<>>, prev_dim |-> 0,
     i |-> 0]

InitCommon ==
    /\ nextId = 1
    /\ locals = NoLocals
    /\ guidedLayer = 0
    /\ scaleCalls = <<>>
    /\ applyCalls = <<>>
    /\ trainCalls = <<>>
    /\ results = EmptyDict
    /\ out = NoOut
    /\ model = NoQRC

\* A run of main: any arguments, any data, the generators in whatever
\* state the process started them in.
InitMain ==
    /\ scenario = "main"
    /\ pc = "start"
    /\ args \in ArgsSet
    /\ env \in {e \in EnvSet : args.dataset_type = "mnist" => e.dir_exists}
    /\ \E a \in AmbientStates : rng = [py |-> a, np |-> a, torch |-> a]
    /\ layers = <<>>
    /\ nn = NoNN
    /\ InitCommon

----------------------------------------------------------------------------
(* main, src/main.py                                                       *)

\* An exception leaving main.
Raise(err) ==
    /\ pc' = "raised"
    /\ out' = [out EXCEPT !.error = err]

\* random.seed / np.random.seed / torch.manual_seed
SeedState(seed) == seed % RNGMod

SeedGenerators_NoNumpy(seed) ==
    [rng EXCEPT !.py = SeedState(seed), !.torch = SeedState(seed)]

SeedGenerators(seed) ==
    [py |-> SeedState(seed), np |-> SeedState(seed), torch |-> SeedState(seed)]

MainSeed ==
    /\ scenario = "main" /\ pc = "start"
    /\ rng' = SeedGenerators(args.seed)
    /\ pc' = "load"
    /\ UNCHANGED <<scenario, args, env, nextId, locals, layers, guidedLayer,
                   scaleCalls, applyCalls, trainCalls, results, out, model>>
    /\ UNCHANGED nn

\* load_dataset, or ValueError when the data set's directory is missing
MainLoad ==
    /\ scenario = "main" /\ pc = "load"
    /\ IF args.dataset_type # "mnist" /\ ~env.dir_exists
       THEN Raise("ValueError")
       ELSE pc' = "reduce" /\ out' = out
    /\ UNCHANGED <<scenario, args, env, rng, nextId, locals, layers, guidedLayer,
                   scaleCalls, applyCalls, trainCalls, results>>
    /\ UNCHANGED model
    /\ UNCHANGED nn

\* The atom count every DetuningLayer of main is constructed with.
LayerNAtoms_Max == MaxDim + 1

LayerNAtoms == args.dim_reduction

\* DetuningLayer(geometry=..., n_atoms=..., ...)
LayerConfig(print_params) ==
    [geometry        |-> args.geometry,
     n_atoms         |-> LayerNAtoms,
     lattice_spacing |-> args.lattice_spacing,
     rabi_freq       |-> args.rabi_freq,
     t_end           |-> args.evolution_time,
     n_steps         |-> args.time_steps,
     readout_type    |-> args.readout_type,
     encoding_scale  |-> args.encoding_scale,
     print_params    |-> print_params]

\* The locals every reduction branch binds.
Reduced(kind, shift) ==
    LET dim   == args.dim_reduction
        raw   == ReduceVals(env.data_train + shift, args.num_examples, dim)
        rawT  == ReduceVals(env.data_test + shift, args.num_test_examples, dim)
    IN  [locals EXCEPT
            !.dim_reduction     = dim,
            !.method_name       = Lower(args.reduction_method),
            !.reduction_name    = Upper(Lower(args.reduction_method)),
            !.xs_raw            = [id |-> nextId, vals |-> raw],
            !.reduction_model   = [kind |-> kind, shift |-> shift, dim |-> dim],
            !.spectral          = Spectral(raw),
            !.test_features_raw = [id |-> nextId + 1, vals |-> rawT]]

MainReducePCA ==
    /\ scenario = "main" /\ pc = "reduce"
    /\ Lower(args.reduction_method) = "pca"
    /\ locals' = Reduced("pca", 0)
    /\ nextId' = nextId + 2
    /\ pc' = "targets"
    /\ UNCHANGED <<scenario, args, env, rng, layers, guidedLayer, scaleCalls,
                   applyCalls, trainCalls, results, out, model>>
    /\ UNCHANGED nn

\* The autoencoder is trained from torch's generator: what it encodes
\* depends on that generator's state.
MainReduceAutoencoder ==
    /\ scenario = "main" /\ pc = "reduce"
    /\ Lower(args.reduction_method) = "autoencoder"
    /\ locals' = Reduced("autoencoder", rng.torch)
    /\ rng' = [rng EXCEPT !.torch = AdvanceBy(rng.torch, 1)]
    /\ nextId' = nextId + 2
    /\ pc' = "targets"
    /\ UNCHANGED <<scenario, args, env, layers, guidedLayer, scaleCalls,
                   applyCalls, trainCalls, results, out, model>>
    /\ UNCHANGED nn

\* The guided branch constructs the quantum layer first and hands it to
\* apply_guided_autoencoder, which uses it as a feature extractor.
MainReduceGuided ==
    /\ scenario = "main" /\ pc = "reduce"
    /\ Lower(args.reduction_method) = "guided_autoencoder"
    /\ layers' = Append(layers, LayerConfig(FALSE))
    /\ guidedLayer' = Len(layers) + 1
    /\ locals' = [Reduced("guided_autoencoder", rng.torch) EXCEPT
                    !.quantum_layer = Len(layers) + 1]
    /\ rng' = [rng EXCEPT !.torch = AdvanceBy(rng.torch, 1),
                          !.np = AdvanceBy(rng.np, args.n_shots)]
    /\ nextId' = nextId + 2
    /\ pc' = "targets"
    /\ UNCHANGED <<scenario, args, env, scaleCalls, applyCalls, trainCalls,
                   results, out, model>>
    /\ UNCHANGED nn

MainUnknownMethod ==
    /\ scenario = "main" /\ pc = "reduce"
    /\ Lower(args.reduction_method) \notin {"pca", "autoencoder", "guided_autoencoder"}
    /\ Raise("ValueError")
    /\ locals' = [locals EXCEPT
                    !.dim_reduction  = args.dim_reduction,
                    !.method_name    = Lower(args.reduction_method),
                    !.reduction_name = Upper(Lower(args.reduction_method))]
    /\ UNCHANGED <<scenario, args, env, rng, nextId, layers, guidedLayer,
                   scaleCalls, applyCalls, trainCalls, results, model>>
    /\ UNCHANGED nn

\* train_targets, test_targets, one_hot_encode, ys
MainTargets ==
    /\ scenario = "main" /\ pc = "targets"
    /\ locals' = [locals EXCEPT !.train_targets = nextId,
                                !.test_targets  = nextId + 1,
                                !.ys            = nextId + 2]
    /\ nextId' = nextId + 3
    /\ pc' = "scale"
    /\ UNCHANGED <<scenario, args, env, rng, layers, guidedLayer, scaleCalls,
                   applyCalls, trainCalls, results, out, model>>
    /\ UNCHANGED nn

\* xs and test_features: both scaled with the training spectral value
MainScale ==
    /\ scenario = "main" /\ pc = "scale"
    /\ LET xs == [id   |-> nextId,
                  vals |-> ScaleToDetuningRange(locals.xs_raw.vals, locals.spectral,
                                                args.detuning_max)]
           tf == [id   |-> nextId + 1,
                  vals |-> ScaleToDetuningRange(locals.test_features_raw.vals,
                                                locals.spectral, args.detuning_max)]
       IN  /\ locals' = [locals EXCEPT !.xs = xs, !.test_features = tf]
           /\ scaleCalls' = scaleCalls \o
                <<[input |-> locals.xs_raw.id, spectral |-> locals.spectral,
                   detuning_max |-> args.detuning_max, output |-> xs.id],
                  [input |-> locals.test_features_raw.id, spectral |-> locals.spectral,
                   detuning_max |-> args.detuning_max, output |-> tf.id]>>
    /\ nextId' = nextId + 2
    /\ pc' = "layer"
    /\ UNCHANGED <<scenario, args, env, rng, layers, guidedLayer, applyCalls,
                   trainCalls, results, out, model>>
    /\ UNCHANGED nn

\* method_name == "guided_autoencoder" and 'quantum_layer' in locals()
ReuseLayer_Never == FALSE

ReuseLayer ==
    locals.method_name = "guided_autoencoder" /\ locals.quantum_layer # 0

MainCreateLayer ==
    /\ scenario = "main" /\ pc = "layer"
    /\ IF ReuseLayer
       THEN UNCHANGED <<layers, locals>>
       ELSE /\ layers' = Append(layers, LayerConfig(TRUE))
            /\ locals' = [locals EXCEPT !.quantum_layer = Len(layers) + 1]
    /\ pc' = "apply_train"
    /\ UNCHANGED <<scenario, args, env, rng, nextId, guidedLayer, scaleCalls,
                   applyCalls, trainCalls, results, out, model>>
    /\ UNCHANGED nn

----------------------------------------------------------------------------
(* main: the quantum layer is applied to the training and the test data    *)

\* A failing apply_layer: nothing catches it, the exception leaves the
\* caller.
OnLayerError_Retry == pc' = pc /\ out' = out

OnLayerError == Raise("LayerError")

\* The keyword and positional parameters main binds in apply_layer.
MainApplyKeywords_Handle == {"x", "n_shots", "show_progress", "rng"}

MainApplyKeywords == {"x", "n_shots", "show_progress"}

ApplyTrainX == locals.xs

ApplyTestX_Raw == locals.test_features_raw

ApplyTestX_Train == locals.xs

ApplyTestX == locals.test_features

\* One apply_layer call: the call is logged; when the layer fails (a width
\* mismatch, or a resource or numerical fault) the exception propagates,
\* otherwise the embeddings are returned and the shots are drawn from
\* numpy's global generator.
ApplyRecord(caller, site, L, x, kw, n_shots, bad, emb) ==
    [caller    |-> caller,
     site      |-> site,
     layer     |-> L,
     cfg       |-> layers[L],
     x         |-> x,
     kw        |-> kw,
     n_shots   |-> n_shots,
     np_before |-> rng.np,
     ok        |-> ~bad,
     emb       |-> emb]

Embed(L, x, n_shots, bad) ==
    IF bad THEN NoMatrix
    ELSE [id |-> nextId, vals |-> ApplyLayerEmb(layers[L], x.vals, n_shots, rng.np)]

MainApplyTrain ==
    /\ scenario = "main" /\ pc = "apply_train"
    /\ \E fault \in BOOLEAN :
        LET L   == locals.quantum_layer
            x   == ApplyTrainX
            bad == fault \/ WidthMismatch(layers[L], x.vals)
            emb == Embed(L, x, args.n_shots, bad)
        IN  /\ applyCalls' = Append(applyCalls,
                    ApplyRecord("main", "train", L, x, MainApplyKeywords,
                                args.n_shots, bad, emb))
            /\ IF bad
               THEN OnLayerError /\ UNCHANGED <<locals, rng, nextId>>
               ELSE /\ locals' = [locals EXCEPT !.embeddings = emb]
                    /\ rng' = [rng EXCEPT !.np = ApplyLayerRng(x.vals, args.n_shots, rng.np)]
                    /\ nextId' = nextId + 1
                    /\ pc' = "apply_test"
                    /\ out' = out
    /\ UNCHANGED <<scenario, args, env, layers, guidedLayer, scaleCalls,
                   trainCalls, results, model>>
    /\ UNCHANGED nn

MainApplyTest ==
    /\ scenario = "main" /\ pc = "apply_test"
    /\ \E fault \in BOOLEAN :
        LET L   == locals.quantum_layer
            x   == ApplyTestX
            bad == fault \/ WidthMismatch(layers[L], x.vals)
            emb == Embed(L, x, args.n_shots, bad)
        IN  /\ applyCalls' = Append(applyCalls,
                    ApplyRecord("main", "test", L, x, MainApplyKeywords,
                                args.n_shots, bad, emb))
            /\ IF bad
               THEN OnLayerError /\ UNCHANGED <<locals, rng, nextId>>
               ELSE /\ locals' = [locals EXCEPT !.test_embeddings = emb]
                    /\ rng' = [rng EXCEPT !.np = ApplyLayerRng(x.vals, args.n_shots, rng.np)]
                    /\ nextId' = nextId + 1
                    /\ pc' = "train_linear"
                    /\ out' = out
    /\ UNCHANGED <<scenario, args, env, layers, guidedLayer, scaleCalls,
                   trainCalls, results, model>>
    /\ UNCHANGED nn

----------------------------------------------------------------------------
(* main: the three classifiers                                             *)

\* regularization, nepochs, batchsize, learning_rate, verbose, nonlinear
Hyper(nonlinear) ==
    [regularization |-> args.regularization,
     nepochs        |-> args.nepochs,
     batchsize      |-> args.batchsize,
     learning_rate  |-> args.learning_rate,
     verbose        |-> ~args.no_progress,
     nonlinear      |-> nonlinear]

TrainCall(x_train, y_train, x_test, y_test, kwargs) ==
    [x_train |-> x_train, y_train |-> y_train, x_test |-> x_test,
     y_test |-> y_test, kwargs |-> kwargs, classifier |-> ""]

\* results[key] = value
DictSet(d, key, value) ==
    [k \in (DOMAIN d) \cup {key} |-> IF k = key THEN value ELSE d[k]]

\* What the classifier on the quantum embeddings is trained on.
QRCTrainX_Reduced == locals.xs

QRCTrainX == locals.embeddings

QRCTestX == locals.test_embeddings

MainTrain(at, x_train, x_test, nonlinear, key, next) ==
    /\ scenario = "main" /\ pc = at
    /\ LET call == TrainCall(x_train, locals.ys, x_test, locals.test_targets,
                             Hyper(nonlinear))
       IN  /\ trainCalls' = Append(trainCalls, call)
           /\ results' = DictSet(results, key, TrainResult(call))
    /\ rng' = [rng EXCEPT !.torch = AdvanceBy(rng.torch, 1)]
    /\ pc' = next
    /\ UNCHANGED <<scenario, args, env, nextId, locals, layers, guidedLayer,
                   scaleCalls, applyCalls, out, model>>
    /\ UNCHANGED nn

MainTrainLinear ==
    MainTrain("train_linear", locals.xs, locals.test_features, FALSE,
              locals.reduction_name \o "+linear", "train_qrc")

MainTrainQRC ==
    MainTrain("train_qrc", QRCTrainX, QRCTestX, FALSE, "QRC", "train_nn")

MainTrainNN ==
    MainTrain("train_nn", locals.xs, locals.test_features, TRUE,
              locals.reduction_name \o "+NN", "report")

\* print_results, plot_training_results unless no_plot, return results
MainReport ==
    /\ scenario = "main" /\ pc = "report"
    /\ out' = [out EXCEPT !.printed = TRUE, !.plotted = ~args.no_plot,
                          !.returned = TRUE]
    /\ pc' = "done"
    /\ UNCHANGED <<scenario, args, env, rng, nextId, locals, layers, guidedLayer,
                   scaleCalls, applyCalls, trainCalls, results, model>>
    /\ UNCHANGED nn

----------------------------------------------------------------------------
(* QRCModel, src/models.py                                                 *)

\* n_shots when apply_layer is called with x alone.
DefaultShots == MaxShots

ClassifierArgs == {"None", "NeuralNetwork()", "LinearClassifier()"}

\* A QRCModel is about to be built around an existing layer.
InitFit ==
    /\ scenario = "fit"
    /\ pc = "qrc_new"
    /\ args = NoArgs
    /\ env = NoEnv
    /\ \E a \in AmbientStates : rng = [py |-> a, np |-> a, torch |-> a]
    /\ \E n \in Dims, ro \in ReadoutTypes :
         layers = <<[LayerConfig(TRUE) EXCEPT !.n_atoms = n, !.readout_type = ro]>>
    /\ nn = NoNN
    /\ InitCommon

\* QRCModel.__init__
QRCInit ==
    /\ scenario = "fit" /\ pc = "qrc_new"
    /\ \E classifier \in ClassifierArgs :
         model' = [model EXCEPT
                     !.quantum_layer = 1,
                     !.classifier = IF classifier # "None" THEN classifier
                                    ELSE "LinearClassifier"]
    /\ pc' = "qrc_ready"
    /\ UNCHANGED <<scenario, args, env, rng, nextId, locals, layers, guidedLayer,
                   scaleCalls, applyCalls, trainCalls, results, out>>
    /\ UNCHANGED nn

\* fit(x_train, y_train, x_test, y_test, **kwargs) is entered
FitEnter ==
    /\ scenario = "fit" /\ pc = "qrc_ready"
    /\ \E d \in DataSets, dT \in DataSets, m \in Examples, mT \in Examples,
          w \in Dims, nonlinear \in BOOLEAN :
         model' = [model EXCEPT
                     !.x_train = [id |-> nextId, vals |-> ReduceVals(d, m, w)],
                     !.x_test  = [id |-> nextId + 1, vals |-> ReduceVals(dT, mT, w)],
                     !.y_train = nextId + 2,
                     !.y_test  = nextId + 3,
                     !.nonlinear = nonlinear]
    /\ nextId' = nextId + 4
    /\ pc' = "fit_apply_train"
    /\ UNCHANGED <<scenario, args, env, rng, locals, layers, guidedLayer,
                   scaleCalls, applyCalls, trainCalls, results, out>>
    /\ UNCHANGED nn

\* self.quantum_layer.apply_layer(x_train), then (x_test)
FitApply(at, site, x, next) ==
    /\ scenario = "fit" /\ pc = at
    /\ \E fault \in BOOLEAN :
        LET L   == model.quantum_layer
            bad == fault \/ WidthMismatch(layers[L], x.vals)
            emb == Embed(L, x, DefaultShots, bad)
        IN  /\ applyCalls' = Append(applyCalls,
                    ApplyRecord("fit", site, L, x, {"x"}, DefaultShots, bad, emb))
            /\ IF bad
               THEN OnLayerError /\ UNCHANGED <<model, rng, nextId>>
               ELSE /\ model' = IF site = "train"
                                THEN [model EXCEPT !.train_embeddings = emb]
                                ELSE [model EXCEPT !.test_embeddings = emb]
                    /\ rng' = [rng EXCEPT !.np = ApplyLayerRng(x.vals, DefaultShots, rng.np)]
                    /\ nextId' = nextId + 1
                    /\ pc' = next
                    /\ out' = out
    /\ UNCHANGED <<scenario, args, env, locals, layers, guidedLayer, scaleCalls,
                   trainCalls, results>>
    /\ UNCHANGED nn

FitApplyTrain == FitApply("fit_apply_train", "train", model.x_train, "fit_apply_test")

FitApplyTest == FitApply("fit_apply_test", "test", model.x_test, "fit_train")

\* The first argument of fit's train call.
FitTrainX_Raw == model.x_train

FitTrainX == model.train_embeddings

\* return train(train_embeddings, y_train, test_embeddings, y_test, **kwargs)
FitTrain ==
    /\ scenario = "fit" /\ pc = "fit_train"
    /\ LET call == TrainCall(FitTrainX, model.y_train, model.test_embeddings,
                             model.y_test, Hyper(model.nonlinear))
       IN  /\ trainCalls' = Append(trainCalls, call)
           /\ model' = [model EXCEPT !.returned = TrainResult(call)]
    /\ rng' = [rng EXCEPT !.torch = AdvanceBy(rng.torch, 1)]
    /\ pc' = "fit_done"
    /\ UNCHANGED <<scenario, args, env, nextId, locals, layers, guidedLayer,
                   scaleCalls, applyCalls, results, out>>
    /\ UNCHANGED nn

----------------------------------------------------------------------------
(* NeuralNetwork.__init__, src/models.py                                   *)

HiddenSizes == {3, 4}

\* Sequences over S of length at most n.
SeqsUpTo(S, n) == UNION {[1..k -> S] : k \in 0..n}

\* Strings, and one nn.Module, given as the activation.
ActivationArgs ==
    {[is_str |-> TRUE, value |-> v] :
        v \in {"relu", "ReLU", "Leaky_ReLU", "TANH", "Sigmoid", "GELU"}}
    \cup {[is_str |-> FALSE, value |-> "ELU"]}

\* Dropout probabilities, in tenths.
DropoutArgs == {-1, 0, 5}

KnownActivations == {"relu", "leaky_relu", "tanh", "sigmoid"}

\* The module built for a known activation name.
ActivationModule(name) ==
    CASE name = "relu" -> "ReLU"
      [] name = "leaky_relu" -> "LeakyReLU"
      [] name = "tanh" -> "Tanh"
      [] name = "sigmoid" -> "Sigmoid"

\* nn.Linear(a, b), nn.BatchNorm1d(a), the activation, nn.Dropout(a),
\* nn.Softmax(dim=a)
Module(type, a, b) == [type |-> type, a |-> a, b |-> b]

\* NeuralNetwork(input_dim, output_dim, hidden_dims, activation, dropout,
\* batch_norm) is called.
InitNN ==
    /\ scenario = "nn"
    /\ pc = "nn_activation"
    /\ args = NoArgs
    /\ env = NoEnv
    /\ rng = [py |-> 0, np |-> 0, torch |-> 0]
    /\ layers = <<>>
    /\ \E input_dim \in Dims, output_dim \in {2, 3},
          hidden_dims \in SeqsUpTo(HiddenSizes, MaxHidden),
          activation \in ActivationArgs, dropout \in DropoutArgs,
          batch_norm \in BOOLEAN :
         nn = [NoNN EXCEPT !.input_dim = input_dim, !.output_dim = output_dim,
                           !.hidden_dims = hidden_dims, !.activation = activation,
                           !.dropout = dropout, !.batch_norm = batch_norm]
    /\ InitCommon

NNFrame ==
    UNCHANGED <<scenario, args, env, rng, nextId, locals, layers, guidedLayer,
                scaleCalls, applyCalls, trainCalls, results, model>>

\* if isinstance(activation, str): ... else: act_fn = activation; then
\* layers = [] and prev_dim = input_dim
NNActivation ==
    /\ scenario = "nn" /\ pc = "nn_activation"
    /\ IF nn.activation.is_str /\ Lower(nn.activation.value) \notin KnownActivations
       THEN Raise("ValueError") /\ nn' = nn
       ELSE /\ nn' = [nn EXCEPT
                        !.act_fn = IF nn.activation.is_str
                                   THEN ActivationModule(Lower(nn.activation.value))
                                   ELSE nn.activation.value,
                        !.layers = <<>>,
                        !.prev_dim = nn.input_dim,
                        !.i = 1]
            /\ pc' = "nn_hidden"
            /\ out' = out
    /\ NNFrame

\* if dropout > 0
AddDropout_NonNegative(dropout) == dropout >= 0

AddDropout(dropout) == dropout > 0

\* One pass of: for i, dim in enumerate(hidden_dims)
NNHiddenLayer ==
    /\ scenario = "nn" /\ pc = "nn_hidden"
    /\ nn.i <= Len(nn.hidden_dims)
    /\ LET dim == nn.hidden_dims[nn.i]
           l1  == Append(nn.layers, Module("Linear", nn.prev_dim, dim))
           l2  == IF nn.batch_norm THEN Append(l1, Module("BatchNorm1d", dim, 0))
                  ELSE l1
           l3  == Append(l2, Module(nn.act_fn, 0, 0))
           l4  == IF AddDropout(nn.dropout)
                  THEN Append(l3, Module("Dropout", nn.dropout, 0)) ELSE l3
       IN  nn' = [nn EXCEPT !.layers = l4, !.prev_dim = dim, !.i = nn.i + 1]
    /\ UNCHANGED <<pc, out>>
    /\ NNFrame

\* The output layer, and self.layers = nn.Sequential(*layers)
NNOutputLayer ==
    /\ scenario = "nn" /\ pc = "nn_hidden"
    /\ nn.i > Len(nn.hidden_dims)
    /\ nn' = [nn EXCEPT !.layers = nn.layers \o
                <<Module("Linear", nn.prev_dim, nn.output_dim),
                  Module("Softmax", 1, 0)>>]
    /\ pc' = "nn_done"
    /\ out' = out
    /\ NNFrame

----------------------------------------------------------------------------
(* The specification                                                       *)

Init == InitMain \/ InitFit \/ InitNN

Next ==
    \/ MainSeed
    \/ MainLoad
    \/ MainReducePCA
    \/ MainReduceAutoencoder
    \/ MainReduceGuided
    \/ MainUnknownMethod
    \/ MainTargets
    \/ MainScale
    \/ MainCreateLayer
    \/ MainApplyTrain
    \/ MainApplyTest
    \/ MainTrainLinear
    \/ MainTrainQRC
    \/ MainTrainNN
    \/ MainReport
    \/ QRCInit
    \/ FitEnter
    \/ FitApplyTrain
    \/ FitApplyTest
    \/ FitTrain
    \/ NNActivation
    \/ NNHiddenLayer
    \/ NNOutputLayer

Spec == Init /\ [][Next]_vars

----------------------------------------------------------------------------
(* Properties                                                              *)

MainCalls == {i \in DOMAIN applyCalls : applyCalls[i].caller = "main"}

FitCalls == {i \in DOMAIN applyCalls : applyCalls[i].caller = "fit"}

InRange(vals, dmax) == \A v \in Entries(vals) : -dmax <= v /\ v <= dmax

C2_AtomsEqualReductionDim ==
    scenario = "main" =>
        /\ \A l \in DOMAIN layers :
             /\ layers[l].n_atoms = args.dim_reduction
             /\ layers[l].n_atoms = locals.reduction_model.dim
        /\ \A i \in MainCalls :
             /\ applyCalls[i].cfg.n_atoms = locals.reduction_model.dim
             /\ Cols(applyCalls[i].x) = applyCalls[i].cfg.n_atoms
             /\ locals.method_name \in {"pca", "autoencoder", "guided_autoencoder"}

\* C2 witness: a guided-autoencoder run of the largest dimension applied
\* the layer to both matrices.
C2_Witness ==
    /\ scenario = "main" /\ Len(applyCalls) = 2
    /\ locals.method_name = "guided_autoencoder"
    /\ args.dim_reduction = MaxDim
    /\ applyCalls[2].ok

\* The configuration main's arguments prescribe (print_params aside).
SameConfig(c, d) ==
    /\ c.geometry = d.geometry /\ c.n_atoms = d.n_atoms
    /\ c.lattice_spacing = d.lattice_spacing /\ c.rabi_freq = d.rabi_freq
    /\ c.t_end = d.t_end /\ c.n_steps = d.n_steps
    /\ c.readout_type = d.readout_type /\ c.encoding_scale = d.encoding_scale

\* C3: a run of main never constructs more than one DetuningLayer; in a
\* run that completes exactly one was constructed, both embeddings were
\* computed by it under the configuration it was constructed with, and in
\* a guided-autoencoder run it is the layer the guided training was given.
C3_OneLayerInstance ==
    scenario = "main" =>
        /\ Len(layers) <= 1
        /\ \A i \in MainCalls :
             /\ applyCalls[i].layer = 1
             /\ applyCalls[i].cfg = layers[1]
             /\ SameConfig(applyCalls[i].cfg, LayerConfig(TRUE))
             /\ locals.method_name = "guided_autoencoder" =>
                    guidedLayer = applyCalls[i].layer
        /\ pc = "done" =>
             /\ Len(layers) = 1
             /\ Len(applyCalls) = 2
             /\ applyCalls[1].x.id = locals.xs.id
             /\ applyCalls[2].x.id = locals.test_features.id
             /\ applyCalls[1].emb = locals.embeddings
             /\ applyCalls[2].emb = locals.test_embeddings

\* C3 witness: a guided-autoencoder run completed.
C3_Witness ==
    /\ scenario = "main" /\ pc = "done"
    /\ locals.method_name = "guided_autoencoder"
    /\ guidedLayer = 1

\* C4: a failed apply_layer call is the last call made: the exception has
\* left the caller, apply_layer was not called again, no train call was
\* made after it, and nothing was returned, printed or plotted.
C4_LayerErrorPropagates ==
    \A i \in DOMAIN applyCalls :
        ~applyCalls[i].ok =>
            /\ i = Len(applyCalls)
            /\ pc = "raised"
            /\ out.error = "LayerError"
            /\ trainCalls = <<>>
            /\ results = EmptyDict
            /\ ~out.printed /\ ~out.plotted /\ ~out.returned
            /\ model.returned = NoResult

\* C4 witness: in main, apply_layer failed on the test data after it had
\* succeeded on the training data.
C4_Witness ==
    /\ scenario = "main" /\ pc = "raised"
    /\ Len(applyCalls) = 2
    /\ applyCalls[1].ok /\ ~applyCalls[2].ok

\* Shots drawn from numpy's generator before main's first apply_layer call.
GuidedDraws ==
    IF Lower(args.reduction_method) = "guided_autoencoder" THEN args.n_shots ELSE 0

C7_HandlePassed ==
    \A i \in DOMAIN applyCalls : "rng" \in applyCalls[i].kw

\* C7 amended: no apply_layer call of the pipeline passes a random-source
\* handle: main binds x, n_shots and show_progress, QRCModel.fit binds x
\* alone; the only provision for the randomness is that main has seeded
\* the global generators from args.seed before its calls.
C7_NoHandleGlobalSeed ==
    /\ \A i \in MainCalls :
         /\ applyCalls[i].kw = {"x", "n_shots", "show_progress"}
         /\ rng.py = SeedState(args.seed)
    /\ \A i \in FitCalls : applyCalls[i].kw = {"x"}

\* C7 witness: main made both of its apply_layer calls.
C7_Witness ==
    /\ scenario = "main" /\ Len(applyCalls) = 2
    /\ applyCalls[2].ok /\ pc = "train_linear"

\* The three keys of main's results, in the order they are produced.
ResultKeys ==
    <<Upper(args.reduction_method) \o "+linear", "QRC",
      Upper(args.reduction_method) \o "+NN">>

\* C8: main makes its train calls only after both apply_layer calls have
\* succeeded, in the order '<METHOD>+linear', 'QRC', '<METHOD>+NN'; after k
\* of them results holds exactly the first k keys, each with the result of
\* its call; the first and third are trained on xs / test_features, the
\* second on embeddings / test_embeddings, nonlinear is set for the third
\* only, and all use ys, test_targets and the same hyperparameters.  A run
\* that completes has made exactly three train calls.
C8_ThreeClassifiers ==
    scenario = "main" =>
        /\ Len(trainCalls) <= 3
        /\ DOMAIN results = {ResultKeys[k] : k \in 1..Len(trainCalls)}
        /\ Cardinality(DOMAIN results) = Len(trainCalls)
        /\ trainCalls # <<>> =>
             /\ Len(applyCalls) = 2
             /\ applyCalls[1].ok /\ applyCalls[2].ok
        /\ \A k \in 1..Len(trainCalls) :
             LET call == trainCalls[k]
             IN  /\ results[ResultKeys[k]] = TrainResult(call)
                 /\ call.x_train.id = (IF k = 2 THEN applyCalls[1].emb.id ELSE locals.xs.id)
                 /\ call.x_test.id = (IF k = 2 THEN applyCalls[2].emb.id
                                      ELSE locals.test_features.id)
                 /\ call.x_train.id # (IF k = 2 THEN locals.xs.id ELSE locals.embeddings.id)
                 /\ call.x_test.id # (IF k = 2 THEN locals.test_features.id
                                      ELSE locals.test_embeddings.id)
                 /\ call.kwargs.nonlinear = (k = 3)
                 /\ call.y_train = locals.ys
                 /\ call.y_test = locals.test_targets
                 /\ [call.kwargs EXCEPT !.nonlinear = FALSE] = Hyper(FALSE)
        /\ pc \in {"report", "done"} => Len(trainCalls) = 3
        /\ out.returned => pc = "done"

\* C8 witness: a run given the method as "Guided_Autoencoder" returned its
\* three results.
C8_Witness ==
    /\ scenario = "main" /\ pc = "done" /\ out.returned
    /\ args.reduction_method = "Guided_Autoencoder"
    /\ DOMAIN results = {"GUIDED_AUTOENCODER+linear", "QRC", "GUIDED_AUTOENCODER+NN"}

\* C9 (state part): fit calls apply_layer on x_train, then on x_test, then
\* train once on (training embeddings, y_train, test embeddings, y_test,
\* kwargs) and returns its result; x_train and x_test never reach train.
C9_FitState ==
    scenario = "fit" =>
        /\ Len(applyCalls) <= 2 /\ Len(trainCalls) <= 1
        /\ Len(applyCalls) >= 1 =>
             applyCalls[1].x = model.x_train /\ applyCalls[1].layer = model.quantum_layer
        /\ Len(applyCalls) = 2 =>
             applyCalls[2].x = model.x_test /\ applyCalls[2].layer = model.quantum_layer
        /\ Len(trainCalls) = 1 =>
             /\ Len(applyCalls) = 2 /\ applyCalls[1].ok /\ applyCalls[2].ok
             /\ trainCalls[1] = TrainCall(applyCalls[1].emb, model.y_train,
                                          applyCalls[2].emb, model.y_test,
                                          Hyper(model.nonlinear))
             /\ trainCalls[1].x_train.id \notin {model.x_train.id, model.x_test.id}
             /\ trainCalls[1].x_test.id \notin {model.x_train.id, model.x_test.id}
             /\ model.returned = TrainResult(trainCalls[1])
        /\ (pc = "fit_done") = (Len(trainCalls) = 1)
        /\ model.returned # NoResult => pc = "fit_done"

\* C9 (step part): once constructed, no step changes the model's
\* quantum_layer or classifier.
C9_FitKeepsAttributes ==
    (scenario = "fit" /\ pc # "qrc_new") =>
        /\ model'.quantum_layer = model.quantum_layer
        /\ model'.classifier = model.classifier

\* C9: fit calls apply_layer on x_train, then on x_test, then train exactly
\* once with (training embeddings, y_train, test embeddings, y_test,
\* kwargs), returns train's result unchanged, never passes x_train or
\* x_test to train, and changes neither quantum_layer nor classifier.
C9_FitOrder == [](C9_FitState) /\ [][C9_FitKeepsAttributes]_vars

\* C9 witness: fit returned the result of its train call.
C9_Witness ==
    /\ scenario = "fit" /\ pc = "fit_done"
    /\ model.returned.ok
    /\ model.returned.x_train = applyCalls[1].emb.id

\* The classifier a trained model comes from.
BuiltFrom(classifier) ==
    IF classifier = "NeuralNetwork()" THEN "NeuralNetwork" ELSE "LinearClassifier"

\* C10 as stated: the classifier held by the model is the one handed to
\* train, and it determines the trained model fit returns.
C10_FitTrainsHeldClassifier ==
    (scenario = "fit" /\ pc = "fit_done") =>
        /\ trainCalls[1].classifier = model.classifier
        /\ model.returned.model = BuiltFrom(model.classifier)

\* Modules per hidden layer: Linear, activation, and the optional two.
PerHidden ==
    2 + (IF nn.batch_norm THEN 1 ELSE 0) + (IF nn.dropout > 0 THEN 1 ELSE 0)

\* The module the claim puts at position p of the module sequence.
ExpectedModule(p) ==
    LET k   == Len(nn.hidden_dims)
        b   == ((p - 1) \div PerHidden) + 1
        o   == (p - 1) % PerHidden
        act == IF nn.activation.is_str
               THEN ActivationModule(Lower(nn.activation.value))
               ELSE nn.activation.value
        inb == IF b = 1 THEN nn.input_dim ELSE nn.hidden_dims[b - 1]
    IN  IF p = k * PerHidden + 1
        THEN Module("Linear", IF k = 0 THEN nn.input_dim ELSE nn.hidden_dims[k],
                    nn.output_dim)
        ELSE IF p = k * PerHidden + 2 THEN Module("Softmax", 1, 0)
        ELSE IF o = 0 THEN Module("Linear", inb, nn.hidden_dims[b])
        ELSE IF nn.batch_norm /\ o = 1 THEN Module("BatchNorm1d", nn.hidden_dims[b], 0)
        ELSE IF o = (IF nn.batch_norm THEN 2 ELSE 1) THEN Module(act, 0, 0)
        ELSE Module("Dropout", nn.dropout, 0)

\* C11: a string activation is matched case-insensitively against relu,
\* leaky_relu, tanh and sigmoid and any other string raises ValueError with
\* no layer built; otherwise, for hidden_dims of length k, each hidden size
\* contributes Linear, BatchNorm1d only if batch_norm, the activation,
\* Dropout only if dropout > 0, in that order, followed by Linear and
\* Softmax: k * (2 + [batch_norm] + [dropout > 0]) + 2 modules, the Linear
\* sizes chaining from input_dim through the hidden sizes to output_dim.
C11_ModuleSequence ==
    scenario = "nn" =>
        /\ pc = "raised" =>
             /\ nn.activation.is_str
             /\ Lower(nn.activation.value) \notin KnownActivations
             /\ nn.layers = <<>> /\ out.error = "ValueError"
        /\ pc \in {"nn_hidden", "nn_done"} =>
             (nn.activation.is_str => Lower(nn.activation.value) \in KnownActivations)
        /\ pc = "nn_hidden" =>
             /\ Len(nn.layers) = (nn.i - 1) * PerHidden
             /\ \A p \in 1..Len(nn.layers) : nn.layers[p] = ExpectedModule(p)
        /\ pc = "nn_done" =>
             /\ Len(nn.layers) = Len(nn.hidden_dims) * PerHidden + 2
             /\ \A p \in 1..Len(nn.layers) : nn.layers[p] = ExpectedModule(p)
             /\ nn.layers[1].type = "Linear" /\ nn.layers[1].a = nn.input_dim
             /\ nn.layers[Len(nn.layers) - 1].type = "Linear"
             /\ nn.layers[Len(nn.layers) - 1].b = nn.output_dim
             /\ nn.layers[Len(nn.layers)].type = "Softmax"

\* C11 witness: a network with the most hidden layers, batch norm, dropout
\* and an activation named in mixed case was built.
C11_Witness ==
    /\ scenario = "nn" /\ pc = "nn_done"
    /\ Len(nn.hidden_dims) = MaxHidden
    /\ nn.hidden_dims[1] # nn.hidden_dims[2]
    /\ nn.batch_norm /\ nn.dropout > 0
    /\ nn.activation = [is_str |-> TRUE, value |-> "Leaky_ReLU"]
    /\ Len(nn.layers) = 4 * MaxHidden + 2

====
